---- MODULE Spec2Model ----
(***************************************************************************)
(* State machine of the PhoneField component                               *)
(* (src/src/components/PhoneField/PhoneField.tsx).                         *)
(*                                                                         *)
(* Strings are sequences of one-character strings, so that toLowerCase,    *)
(* startsWith and the template literals that build the labels are          *)
(* computed character by character.  A value of type string | null is a    *)
(* sequence of length at most one: Null is <<>>, Some(s) is <<s>>.         *)
(* Indices are 0-based as in the source; countries[i] is At(countries, i). *)
(***************************************************************************)
EXTENDS Integers, Sequences, FiniteSets, TLC

\* ------------------------------------------------------------------ bounds
MaxQueryLen == 2
MaxPhoneLen == 2

\* --------------------------------------------------------- string helpers
Null == <<>>
Some(s) == <<s>>

\* JavaScript truthiness of a string | null: null and '' are falsy.
Truthy(v) == v # Null /\ v[1] # <<>>

\* JavaScript a || b on string | null operands
OrElse(a, b) == IF Truthy(a) THEN a[1] ELSE b

At(seq, i) == seq[i + 1]

RECURSIVE SeqsUpTo(_, _)
SeqsUpTo(chars, n) ==
    IF n = 0 THEN {<<>>}
    ELSE LET shorter == SeqsUpTo(chars, n - 1)
         IN  shorter \cup {Append(s, c) : s \in shorter, c \in chars}

\* String.prototype.toLowerCase, on the characters the model uses
LowerChar(ch) ==
    CASE ch = "C" -> "c"
      [] ch = "A" -> "a"
      [] ch = "B" -> "b"
      [] OTHER -> ch

toLowerCase(s) == [i \in 1..Len(s) |-> LowerChar(s[i])]

\* String.prototype.startsWith
startsWith(s, prefix) ==
    /\ Len(prefix) <= Len(s)
    /\ \A i \in 1..Len(prefix) : s[i] = prefix[i]

\* ------------------------------------------------------------- formatters
\* Country.formatter is supplied by the caller.  The registries below use
\* three formatters, named by a tag in the country record.
IsDigit(ch) == ch \in {"5", "6"}

RECURSIVE DigitsOf(_)
DigitsOf(x) ==
    IF x = <<>> THEN <<>>
    ELSE IF IsDigit(Head(x)) THEN <<Head(x)>> \o DigitsOf(Tail(x))
         ELSE DigitsOf(Tail(x))

AllDigits(x) == \A i \in 1..Len(x) : IsDigit(x[i])

\* x => /^\d\d$/.test(x) ? `(${x})` : null     (the shape of Scenario D)
FormatParen2(x) ==
    IF Len(x) = 2 /\ AllDigits(x) THEN Some(<<"(">> \o x \o <<")">>) ELSE Null

\* x => x.replace(/\D/g, '')    never null, '' when x has no digit
FormatStrip(x) == Some(DigitsOf(x))

\* x => /^\d$/.test(x) ? x : null
FormatOne(x) == IF Len(x) = 1 /\ AllDigits(x) THEN Some(x) ELSE Null

formatter(country, phone) ==
    CASE country.formatter = "paren2" -> FormatParen2(phone)
      [] country.formatter = "strip"  -> FormatStrip(phone)
      [] country.formatter = "one"    -> FormatOne(phone)

\* ------------------------------------------------------------------ props
Country(image, countryName, countryCode, countryError, fmt) ==
    [image |-> image, countryName |-> countryName, countryCode |-> countryCode,
     errorMessage |-> countryError, formatter |-> fmt]

\* three countries, unique names, two of them sharing a calling code
RegistryMulti ==
    << Country(<<"C", "A">>, <<"C", "a">>, <<"+", "1">>, <<"e", "1">>, "paren2"),
       Country(<<"C", "B">>, <<"c", "b">>, <<"+", "2">>, <<"e", "2">>, "strip"),
       Country(<<"A", "A">>, <<"a">>,      <<"+", "1">>, <<"e", "3">>, "one") >>

\* the single-country registry of Scenario C
RegistrySingle ==
    << Country(<<"C", "A">>, <<"C", "a">>, <<"+", "1">>, <<"e", "1">>, "paren2") >>

\* a registry that breaks the caller's promise of unique names
RegistryDuplicate ==
    << Country(<<"C", "A">>, <<"C", "a">>, <<"+", "1">>, <<"e", "1">>, "paren2"),
       Country(<<"C", "A">>, <<"C", "a">>, <<"+", "7">>, <<"e", "3">>, "one") >>

\* the empty registry, which the caller must not pass but can
RegistryEmpty == << >>

Registries == {RegistryMulti, RegistrySingle, RegistryDuplicate, RegistryEmpty}

\* the errorMessage prop of the field
errorMessage == <<"E", "r", "r">>

QueryChars == {"C", "a"}
PhoneChars == {"5", "-"}
Queries == SeqsUpTo(QueryChars, MaxQueryLen)
RawPhones == SeqsUpTo(PhoneChars, MaxPhoneLen)

\* ------------------------------------------------------------------ state
VARIABLES
    countries,             \* props.countries, fixed at mount
    phoneNumber,           \* useState('')
    formattedPhoneNumber,  \* useState<string | null>(null)
    popoverActive,         \* useState(countries.length > 1)
    selectedCountry,       \* useState(0)
    error,                 \* useState<string | null>(null)
    searchBarText,         \* useState('')
    countryOptions,        \* useState(allCountries)
    rendered,              \* TRUE when the last render returned its
                           \* elements, FALSE when it threw
    lastEvent              \* history: the handler that ran last, its
                           \* argument, and the popover flag and search
                           \* text it found

vars == <<countries, phoneNumber, formattedPhoneNumber, popoverActive,
          selectedCountry, error, searchBarText, countryOptions, rendered,
          lastEvent>>

\* item is the 0-based position of the activated list item, -1 when the
\* event is not an activation
Event(op, arg, item) ==
    [op |-> op, arg |-> arg, item |-> item, wasActive |-> popoverActive,
     wasText |-> searchBarText]

\* ------------------------------------------------------- derived per render
\* `${image}  ${countryName} (${countryCode})`: two spaces after the image
allCountriesContent(c) ==
    c.image \o <<" ", " ">> \o c.countryName \o <<" ", "(">> \o c.countryCode
      \o <<")">>

\* A list item is {content, onAction}.  onAction is a closure: byIndex
\* closures call handleSelected(index) with the captured registry index,
\* byName closures call handleSelected(retrieveCountryIndex(countryName))
\* with the captured countryName.  countryName is the name destructured by
\* the map callback that built the item (the country the item shows).
Item(content, countryName, byName, index) ==
    [content |-> content, countryName |-> countryName,
     onAction |-> [byName |-> byName, index |-> index]]

\* countries.map(({countryName, image, countryCode}, index) => ...)
allCountriesOf(reg) ==
    [i \in 1..Len(reg) |->
        Item(allCountriesContent(reg[i]), reg[i].countryName, FALSE, i - 1)]

allCountries == allCountriesOf(countries)

\* a plausible slip: the position is returned 1-based
retrieveCountryIndex_OneBased(countryName) ==
    IF \E i \in 1..Len(countries) : countries[i].countryName = countryName
    THEN CHOOSE i \in 1..Len(countries) :
            /\ countries[i].countryName = countryName
            /\ \A j \in 1..(i - 1) : countries[j].countryName # countryName
    ELSE -1

\* countries.findIndex(element => element.countryName === countryName)
retrieveCountryIndex(countryName) ==
    IF \E i \in 1..Len(countries) : countries[i].countryName = countryName
    THEN (CHOOSE i \in 1..Len(countries) :
            /\ countries[i].countryName = countryName
            /\ \A j \in 1..(i - 1) : countries[j].countryName # countryName) - 1
    ELSE -1

\* `${image} ${countryName} (${countryCode})`: one space after the image
retrieveCountriesContent(c) ==
    c.image \o <<" ">> \o c.countryName \o <<" ", "(">> \o c.countryCode
      \o <<")">>

\* a plausible slip: the comparison forgets to lower-case the name
retrieveCountriesMatch_CaseSensitive(c, search) ==
    startsWith(c.countryName, toLowerCase(search))

\* countryObj.countryName.toLowerCase().startsWith(search.toLowerCase())
retrieveCountriesMatch(c, search) ==
    startsWith(toLowerCase(c.countryName), toLowerCase(search))

\* countries.filter(...) from position i on, as the 0-based registry
\* indices it keeps: Array.prototype.filter keeps the array's order
RECURSIVE filterFrom(_, _)
filterFrom(search, i) ==
    IF i > Len(countries) THEN <<>>
    ELSE IF retrieveCountriesMatch(countries[i], search)
         THEN <<i - 1>> \o filterFrom(search, i + 1)
         ELSE filterFrom(search, i + 1)

\* a plausible slip: the item captures its position in the filtered list
retrieveCountries_FilteredIndex(search) ==
    LET kept == filterFrom(search, 1)
    IN  [k \in 1..Len(kept) |->
            Item(retrieveCountriesContent(At(countries, kept[k])),
                 At(countries, kept[k]).countryName, FALSE, k - 1)]

\* countries.filter(...).map(({countryName, image, countryCode}) => ...)
retrieveCountries(search) ==
    LET kept == filterFrom(search, 1)
    IN  [k \in 1..Len(kept) |->
            Item(retrieveCountriesContent(At(countries, kept[k])),
                 At(countries, kept[k]).countryName, TRUE, -1)]

\* the index an item's onAction hands to handleSelected
onActionIndex(item) ==
    IF item.onAction.byName
    THEN retrieveCountryIndex(item.countryName)
    ELSE item.onAction.index

\* ----------------------------------------------------------------- render
\* a plausible slip: the render guards the lookup (countries[i]?.countryName)
renders_Guarded(reg, index) == TRUE

\* The render reads countries[selectedCountry].countryName and .countryCode:
\* it throws a TypeError when countries[selectedCountry] is undefined, and
\* then nothing is rendered and no handler is attached.
renders(reg, index) == index \in 0..(Len(reg) - 1)

\* `${countries[selectedCountry].countryName} (${...countryCode})`
buttonContent ==
    At(countries, selectedCountry).countryName \o <<" ", "(">>
      \o At(countries, selectedCountry).countryCode \o <<")">>

\* the text of the activator button
activatorText ==
    IF Len(countries) > 1 THEN buttonContent
    ELSE At(countries, selectedCountry).countryName

\* value={formattedPhoneNumber || phoneNumber}
textFieldValue == OrElse(formattedPhoneNumber, phoneNumber)

\* the render that follows every state update
Rerender == rendered' = renders(countries, selectedCountry')

\* ------------------------------------------------------------------ mount
\* a plausible slip: the popover starts closed
Init_PopoverClosed ==
    /\ countries \in Registries
    /\ phoneNumber = <<>>
    /\ formattedPhoneNumber = Null
    /\ popoverActive = FALSE
    /\ selectedCountry = 0
    /\ error = Null
    /\ searchBarText = <<>>
    /\ countryOptions = allCountries
    /\ rendered = renders(countries, 0)
    /\ lastEvent = [op |-> "mount", arg |-> <<>>, item |-> -1,
                    wasActive |-> FALSE, wasText |-> <<>>]

\* The useState initialisers run, then the first render reads
\* countries[0]; when that throws, the values below are discarded with the
\* component and no event reaches it.
Init ==
    /\ countries \in Registries
    /\ phoneNumber = <<>>
    /\ formattedPhoneNumber = Null
    /\ popoverActive = (Len(countries) > 1)
    /\ selectedCountry = 0
    /\ error = Null
    /\ searchBarText = <<>>
    /\ countryOptions = allCountries
    /\ rendered = renders(countries, 0)
    /\ lastEvent = [op |-> "mount", arg |-> <<>>, item |-> -1,
                    wasActive |-> FALSE, wasText |-> <<>>]

\* --------------------------------------------------------------- callbacks
\* a plausible slip: the toggle forgets setSearchBarText('')
togglePopoverActive_KeepsText ==
    /\ popoverActive' = ~popoverActive
    /\ searchBarText' = searchBarText
    /\ countryOptions' = allCountries

\* a plausible slip: the toggle forgets setCountryOptions(allCountries)
togglePopoverActive_KeepsOptions ==
    /\ popoverActive' = ~popoverActive
    /\ searchBarText' = <<>>
    /\ countryOptions' = countryOptions

togglePopoverActive ==
    /\ popoverActive' = ~popoverActive
    /\ searchBarText' = <<>>
    /\ countryOptions' = allCountries

handleSelected(index) ==
    /\ selectedCountry' = index
    /\ togglePopoverActive

\* a plausible slip: the options are computed from the search text of the
\* current render instead of the text just typed
handleSearchBar_StaleText(country) ==
    /\ searchBarText' = country
    /\ countryOptions' = retrieveCountries(searchBarText)

handleSearchBar(country) ==
    /\ searchBarText' = country
    /\ countryOptions' = retrieveCountries(country)

\* a plausible slip: handleFormat memoised with the selectedCountry of the
\* first render
handleFormat_StaleCountry(phone) ==
    formattedPhoneNumber' = formatter(At(countries, 0), phone)

handleFormat(phone) ==
    formattedPhoneNumber' = formatter(At(countries, selectedCountry), phone)

\* ------------------------------------------------------------------ events
\* <Button onClick={togglePopoverActive} disclosure>, rendered only when
\* countries.length > 1
ActivatorClick ==
    /\ Len(countries) > 1
    /\ rendered
    /\ togglePopoverActive
    /\ lastEvent' = Event("activatorClick", <<>>, -1)
    /\ UNCHANGED <<countries, phoneNumber, formattedPhoneNumber,
                   selectedCountry, error>>
    /\ Rerender

\* <Popover onClose={togglePopoverActive}>: a close request of the popover
\* host, which is not trusted to deliver it only once or only while open
PopoverOnClose ==
    /\ rendered
    /\ togglePopoverActive
    /\ lastEvent' = Event("onClose", <<>>, -1)
    /\ UNCHANGED <<countries, phoneNumber, formattedPhoneNumber,
                   selectedCountry, error>>
    /\ Rerender

\* search TextField onChange={handleSearchBar}, rendered inside the popover
SearchBarChange(query) ==
    /\ rendered
    /\ popoverActive
    /\ handleSearchBar(query)
    /\ lastEvent' = Event("search", query, -1)
    /\ UNCHANGED <<countries, phoneNumber, formattedPhoneNumber,
                   popoverActive, selectedCountry, error>>
    /\ Rerender

\* a plausible slip: a selection also clears the formatted value and error
ItemOnAction_ResetsPhone(k) ==
    /\ rendered
    /\ popoverActive
    /\ k \in 1..Len(countryOptions)
    /\ handleSelected(onActionIndex(countryOptions[k]))
    /\ formattedPhoneNumber' = Null
    /\ error' = Null
    /\ lastEvent' = Event("select", countryOptions[k].countryName, k - 1)
    /\ UNCHANGED <<countries, phoneNumber>>
    /\ Rerender

\* <ActionList items={countryOptions}>: the k-th rendered item is activated
ItemOnAction(k) ==
    /\ rendered
    /\ popoverActive
    /\ k \in 1..Len(countryOptions)
    /\ handleSelected(onActionIndex(countryOptions[k]))
    /\ lastEvent' = Event("select", countryOptions[k].countryName, k - 1)
    /\ UNCHANGED <<countries, phoneNumber, formattedPhoneNumber, error>>
    /\ Rerender

\* phone TextField onChange={setPhoneNumber}
PhoneOnChange(raw) ==
    /\ rendered
    /\ phoneNumber' = raw
    /\ lastEvent' = Event("typePhone", raw, -1)
    /\ UNCHANGED <<countries, formattedPhoneNumber, popoverActive,
                   selectedCountry, error, searchBarText, countryOptions>>
    /\ Rerender

\* phone TextField onBlur: setError reads the formattedPhoneNumber of the
\* render the closure was created in, i.e. the value before handleFormat
PhoneOnBlur ==
    /\ rendered
    /\ handleFormat(phoneNumber)
    /\ error' = IF Truthy(formattedPhoneNumber) THEN Null ELSE Some(errorMessage)
    /\ lastEvent' = Event("commitPhone", phoneNumber, -1)
    /\ UNCHANGED <<countries, phoneNumber, popoverActive, selectedCountry,
                   searchBarText, countryOptions>>
    /\ Rerender

Next ==
    \/ ActivatorClick
    \/ PopoverOnClose
    \/ \E query \in Queries : SearchBarChange(query)
    \/ \E k \in 1..Len(countryOptions) : ItemOnAction(k)
    \/ \E raw \in RawPhones : PhoneOnChange(raw)
    \/ PhoneOnBlur

Spec == Init /\ [][Next]_vars

\* ---------------------------------------------- a list host off its contract
\* every item some render can have handed to the list host
RenderedItems ==
    {allCountries[i] : i \in 1..Len(countries)}
      \cup UNION {{retrieveCountries(q)[k] : k \in 1..Len(retrieveCountries(q))} :
                   q \in Queries}

\* The list host invokes the onAction of an item an earlier render gave it,
\* for a country the current countryOptions do not show.  The closure runs
\* handleSelected like any other: nothing in it looks at countryOptions.
StaleItemOnAction(item) ==
    /\ rendered
    /\ \A k \in 1..Len(countryOptions) :
          countryOptions[k].countryName # item.countryName
    /\ handleSelected(onActionIndex(item))
    /\ lastEvent' = Event("staleSelect", item.countryName, -1)
    /\ UNCHANGED <<countries, phoneNumber, formattedPhoneNumber, error>>
    /\ Rerender

NextStale ==
    \/ Next
    \/ \E item \in RenderedItems : StaleItemOnAction(item)

SpecStale == Init /\ [][NextStale]_vars

TypeOK ==
    /\ countries \in Registries
    /\ phoneNumber \in RawPhones
    /\ popoverActive \in BOOLEAN
    /\ rendered \in BOOLEAN
    /\ rendered => selectedCountry \in 0..(Len(countries) - 1)
    /\ error \in {Null, Some(errorMessage)}
    /\ searchBarText \in Queries

\* ============================================================== properties
\* Reference notions, stated without the operators of the model.

\* two characters that differ at most in case
SameLetter(a, b) ==
    \/ a = b
    \/ {a, b} \in {{"A", "a"}, {"B", "b"}, {"C", "c"}}

\* name starts with query, ignoring case
PrefixIgnoringCase(name, query) ==
    /\ Len(query) <= Len(name)
    /\ \A i \in 1..Len(query) : SameLetter(name[i], query[i])

\* 0-based registry indices of the countries a query selects
MatchingIndices(query) ==
    {i \in 0..(Len(countries) - 1) :
        PrefixIgnoringCase(At(countries, i).countryName, query)}

\* the k-th (1-based) smallest of them
NthMatching(query, k) ==
    CHOOSE i \in MatchingIndices(query) :
        Cardinality({j \in MatchingIndices(query) : j < i}) = k - 1

\* the label names the country: it begins with the image, ends with the
\* code in parentheses and has the name right before that
LabelShows(content, c) ==
    LET tailPart == c.countryName \o <<" ", "(">> \o c.countryCode \o <<")">>
    IN  /\ Len(content) >= Len(c.image) + Len(tailPart)
        /\ SubSeq(content, 1, Len(c.image)) = c.image
        /\ SubSeq(content, Len(content) - Len(tailPart) + 1, Len(content))
             = tailPart

\* items show exactly the countries the query selects, in registry order
ShowsMatchesOf(items, query) ==
    /\ Len(items) = Cardinality(MatchingIndices(query))
    /\ \A k \in 1..Len(items) :
          items[k].countryName = At(countries, NthMatching(query, k)).countryName

LabelsMatchOf(items, query) ==
    \A k \in 1..Len(items) :
        LabelShows(items[k].content, At(countries, NthMatching(query, k)))

UniqueNames ==
    \A i, j \in 1..Len(countries) :
        countries[i].countryName = countries[j].countryName => i = j

Labels(items) == [k \in 1..Len(items) |-> items[k].content]
Names(items) == [k \in 1..Len(items) |-> items[k].countryName]

ActiveCountry == At(countries, selectedCountry)

IsToggle(ev) == ev.op \in {"activatorClick", "onClose"}

\* C1: when the active country's formatter accepts the raw input, typePhone
\* followed by commitPhone leaves the formatted value as display value and
\* no validation error.
C1_CommitAcceptedClearsError ==
    [][(/\ lastEvent.op = "typePhone"
        /\ lastEvent'.op = "commitPhone"
        /\ formatter(ActiveCountry, phoneNumber) # Null)
       => (/\ formattedPhoneNumber' = formatter(ActiveCountry, phoneNumber)
           /\ error' = Null)]_vars

\* C2: when the active country's formatter rejects the raw input, typePhone
\* followed by commitPhone leaves no display value and the errorMessage
\* prop as validation error.
C2_CommitRejectedSetsError ==
    [][(/\ lastEvent.op = "typePhone"
        /\ lastEvent'.op = "commitPhone"
        /\ formatter(ActiveCountry, phoneNumber) = Null)
       => (/\ formattedPhoneNumber' = Null
           /\ error' = Some(errorMessage))]_vars

\* C3: a formatted display value and a validation error never coexist.
C3_DisplayAndErrorExclusive ==
    ~(formattedPhoneNumber # Null /\ error # Null)

\* C4: with unique country names, activating a candidate while the popover
\* is open sets selectedCountry to the registry index of the candidate's
\* country (not its position in the list) and closes the popover.
C4_SelectResolvesRegistryIndex ==
    (lastEvent.op = "select" /\ lastEvent.wasActive /\ UniqueNames)
    => /\ selectedCountry \in 0..(Len(countries) - 1)
       /\ At(countries, selectedCountry).countryName = lastEvent.arg
       /\ ~popoverActive

\* a candidate of a narrowed list, whose list position differs from its
\* registry index, has been activated
C4_Witness ==
    /\ lastEvent.op = "select"
    /\ UniqueNames
    /\ lastEvent.wasText # <<>>
    /\ lastEvent.item # selectedCountry
    /\ ~popoverActive

\* C5: search(q) lists exactly the countries whose name starts with q,
\* ignoring case, in registry order; the empty query lists all of them.
C5_SearchIsPrefixFilter ==
    lastEvent.op = "search"
    => /\ ShowsMatchesOf(countryOptions, lastEvent.arg)
       /\ LabelsMatchOf(countryOptions, lastEvent.arg)
       /\ (lastEvent.arg = <<>> =>
             Names(countryOptions) =
               [i \in 1..Len(countries) |-> countries[i].countryName])

\* an upper-case query has kept a lower-case name and dropped a country
C5_Witness ==
    /\ lastEvent.op = "search"
    /\ lastEvent.arg = <<"C">>
    /\ countries = RegistryMulti
    /\ Names(countryOptions) = << <<"C", "a">>, <<"c", "b">> >>

\* C6: whenever the popover goes from closed to open, the search text
\* becomes empty and the candidates become the full registry in order.
C6_OpenResetsSearch ==
    [][(~popoverActive /\ popoverActive')
       => (/\ searchBarText' = <<>>
           /\ Len(countryOptions') = Len(countries)
           /\ \A i \in 1..Len(countries) :
                 /\ countryOptions'[i].countryName = countries[i].countryName
                 /\ LabelShows(countryOptions'[i].content, countries[i]))]_vars

\* the popover has just been opened from closed
C6_Witness ==
    /\ IsToggle(lastEvent)
    /\ ~lastEvent.wasActive
    /\ popoverActive
    /\ Len(countries) > 1

\* C7: the candidates installed by open() equal, label for label, what the
\* search filter returns for the empty query, which are the candidates
\* after search("").
C7_OpenEqualsEmptySearch ==
    /\ (IsToggle(lastEvent) /\ ~lastEvent.wasActive /\ popoverActive)
         => /\ Names(countryOptions) = Names(retrieveCountries(<<>>))
            /\ Labels(countryOptions) = Labels(retrieveCountries(<<>>))
    /\ (lastEvent.op = "search" /\ lastEvent.arg = <<>>)
         => /\ Names(countryOptions) = Names(allCountries)
            /\ Labels(countryOptions) = Labels(allCountries)

\* C8 as stated: a close leaves the search text and the candidates as they
\* were.
C8_CloseKeepsSearch ==
    [][(popoverActive /\ IsToggle(lastEvent'))
       => (/\ ~popoverActive'
           /\ searchBarText' = searchBarText
           /\ Names(countryOptions') = Names(countryOptions))]_vars

\* C8 amended: a close (a close request or an activator click while the
\* popover is open) closes the popover, empties the search text and puts
\* the full registry back into the candidates.
C8_CloseResetsSearch ==
    [][(popoverActive /\ IsToggle(lastEvent'))
       => (/\ ~popoverActive'
           /\ searchBarText' = <<>>
           /\ Len(countryOptions') = Len(countries)
           /\ Names(countryOptions') =
                [i \in 1..Len(countries) |-> countries[i].countryName])]_vars

\* a popover showing a narrowed list has just been closed
C8_Witness ==
    /\ IsToggle(lastEvent)
    /\ lastEvent.wasActive
    /\ lastEvent.wasText # <<>>
    /\ ~popoverActive
    /\ searchBarText = <<>>
    /\ Len(countryOptions) = 3

\* C9: a close request is idempotent: delivered while the popover is closed
\* it leaves it closed, and two consecutive close requests end with the
\* popover closed.  (The code has no open request apart from the toggle.)
C9_CloseIdempotent ==
    [][/\ (lastEvent'.op = "onClose" /\ ~popoverActive) => ~popoverActive'
       /\ (lastEvent.op = "onClose" /\ lastEvent'.op = "onClose")
            => ~popoverActive']_vars

\* C10: in every state the candidates are the countries the search filter
\* selects for the current search text, in the same order, and after a
\* search the search text is the query of that search.
C10_CandidatesFollowSearchText ==
    /\ ShowsMatchesOf(countryOptions, searchBarText)
    /\ lastEvent.op = "search" => (searchBarText = lastEvent.arg /\ popoverActive)

\* a search has replaced the result of an earlier, different search
C10_Witness ==
    /\ lastEvent.op = "search"
    /\ lastEvent.wasText # <<>>
    /\ lastEvent.wasText # lastEvent.arg
    /\ MatchingIndices(lastEvent.wasText) # MatchingIndices(lastEvent.arg)
    /\ Len(countryOptions) = 1
    /\ popoverActive

C12_SingleCountryIsFixed ==
    Len(countries) = 1
    => /\ ~popoverActive
       /\ selectedCountry = 0
       /\ activatorText = countries[1].countryName
       /\ lastEvent.op \notin {"search", "select"}

\* C13: for a non-empty registry with unique names the selected index
\* always addresses a registry entry, so the render never throws.
C13_SelectedCountryInRange ==
    (Len(countries) >= 1 /\ UniqueNames)
    => /\ selectedCountry \in 0..(Len(countries) - 1)
       /\ rendered

\* the last registry entry has been selected from a narrowed list
C13_Witness ==
    /\ Len(countries) > 1
    /\ UniqueNames
    /\ lastEvent.op = "select"
    /\ lastEvent.wasText # <<>>
    /\ selectedCountry = Len(countries) - 1
    /\ rendered

\* C14: activating an item for a country the current candidates do not
\* show is rejected: selection, popover flag, search text and candidates
\* keep their values.
C14_UnknownSelectRejected ==
    [][lastEvent'.op = "staleSelect"
       => /\ selectedCountry' = selectedCountry
          /\ popoverActive' = popoverActive
          /\ searchBarText' = searchBarText
          /\ countryOptions' = countryOptions]_vars

\* C15: a commit applies the formatter of the country selected at that
\* moment to the raw input, whatever happened since the selection.
C15_CommitUsesSelectedFormatter ==
    [][lastEvent'.op = "commitPhone"
       => formattedPhoneNumber' =
            (CASE ActiveCountry.formatter = "paren2" -> FormatParen2(phoneNumber)
               [] ActiveCountry.formatter = "strip" -> FormatStrip(phoneNumber)
               [] ActiveCountry.formatter = "one" -> FormatOne(phoneNumber))]_vars

\* after a change of country, a commit has given what the new country's
\* formatter gives and the first country's does not
C15_Witness ==
    /\ lastEvent.op = "commitPhone"
    /\ selectedCountry # 0
    /\ formattedPhoneNumber = formatter(ActiveCountry, phoneNumber)
    /\ formattedPhoneNumber # formatter(countries[1], phoneNumber)
    /\ formattedPhoneNumber # Null

\* C16: the phone field shows the formatted value whenever it is not null,
\* the empty string included, and the raw input otherwise.
C16_ShownValue ==
    rendered
    => textFieldValue =
         (IF formattedPhoneNumber # Null THEN formattedPhoneNumber[1]
          ELSE phoneNumber)

\* C17: with an empty registry the construction fails: the first render
\* throws, nothing is rendered and no event is ever handled.
C17_EmptyRegistryFailsAtMount ==
    Len(countries) = 0 => (~rendered /\ lastEvent.op = "mount")

\* the control has been constructed with an empty registry
C17_Witness ==
    /\ countries = RegistryEmpty
    /\ ~rendered
    /\ lastEvent.op = "mount"

\* C18: at mount the selection is entry 0, the search text and the raw
\* input are empty, the candidates are the full registry, there is no
\* formatted value and no error, and the popover is open exactly when the
\* registry has more than one country.
C18_InitialState ==
    (lastEvent.op = "mount" /\ rendered)
    => /\ selectedCountry = 0
       /\ searchBarText = <<>>
       /\ Names(countryOptions) =
            [i \in 1..Len(countries) |-> countries[i].countryName]
       /\ \A i \in 1..Len(countries) :
             LabelShows(countryOptions[i].content, countries[i])
       /\ phoneNumber = <<>>
       /\ formattedPhoneNumber = Null
       /\ error = Null
       /\ popoverActive = (Len(countries) > 1)

\* a control with several countries has just mounted, its popover open
C18_Witness ==
    /\ lastEvent.op = "mount"
    /\ rendered
    /\ Len(countries) > 1
    /\ popoverActive

\* C19: a second commit right after a commit changes neither the formatted
\* value nor the error.
C19_CommitIdempotent ==
    [][(lastEvent.op = "commitPhone" /\ lastEvent'.op = "commitPhone")
       => (formattedPhoneNumber' = formattedPhoneNumber /\ error' = error)]_vars
====
